---------------------------- MODULE Spec2Model ----------------------------
(***************************************************************************)
(* Model of intervention/controller.py: the discrete PID controller with   *)
(* integral discounting, the turning-radius and waypoint-interpolation     *)
(* functions, and VehicleController.step which combines them.              *)
(*                                                                         *)
(* Numbers.  The Python code works on floats; the model works on exact     *)
(* rationals <<n, d>> (d > 0, lowest terms), so every +, -, *, / of the    *)
(* code is the same operation here without rounding.  math.inf is the      *)
(* pair <<1, 0>>, Python's None is the empty tuple.  np.linalg.norm is an  *)
(* exact square root; the inputs are drawn from sets on which every        *)
(* segment length is rational.                                             *)
(***************************************************************************)
EXTENDS Integers, Naturals, Sequences, FiniteSets, TLC

VARIABLES
    speed_control,   \* VehicleController._speed_control (a PidController)
    brake_control,   \* VehicleController._brake_control (a PidController)
    wheelbase,       \* the vehicle geometry behind _kinematic_bicycle
    logger_bound,    \* whether the module global `logger` is bound
    calls,           \* number of step calls made so far
    call,            \* the arguments and PID states of the latest step call
    result,          \* what the latest step call produced
    pid_a,           \* a stand-alone PidController
    pid_b,           \* a second PidController with the same coefficients
    hist_a,          \* the errors pid_a was stepped with (updating calls)
    hist_b,          \* the errors pid_b was stepped with (updating calls)
    pid_call,        \* the latest PidController.step call and its output
    geo_in,          \* arguments of the latest pure-function call
    geo_out          \* its result

vars == <<speed_control, brake_control, wheelbase, logger_bound, calls, call,
          result, pid_a, pid_b, hist_a, hist_b, pid_call, geo_in, geo_out>>

vc_vars == <<speed_control, brake_control, wheelbase, logger_bound, calls,
             call, result>>
pid_vars == <<pid_a, pid_b, hist_a, hist_b, pid_call>>
geo_vars == <<geo_in, geo_out>>

---------------------------------------------------------------------------
(* Exact rational arithmetic standing for Python's float arithmetic.       *)

None == <<>>
Inf == <<1, 0>>

Abs(n) == IF n < 0 THEN -n ELSE n

RECURSIVE GCD(_, _)
GCD(a, b) == IF b = 0 THEN a ELSE GCD(b, a % b)

Rat(n, d) ==
    LET g == GCD(Abs(n), Abs(d))
        s == IF d < 0 THEN -1 ELSE 1
    IN  <<(s * n) \div g, (s * d) \div g>>

Zero == <<0, 1>>
One == <<1, 1>>

RAdd(a, b) == Rat(a[1] * b[2] + b[1] * a[2], a[2] * b[2])
RSub(a, b) == Rat(a[1] * b[2] - b[1] * a[2], a[2] * b[2])
RMul(a, b) == Rat(a[1] * b[1], a[2] * b[2])
RDiv(a, b) == Rat(a[1] * b[2], a[2] * b[1])
RNeg(a) == <<-a[1], a[2]>>
RAbs(a) == <<Abs(a[1]), a[2]>>
RLt(a, b) == a[1] * b[2] < b[1] * a[2]
RLe(a, b) == a[1] * b[2] <= b[1] * a[2]
RMax(a, b) == IF RLt(a, b) THEN b ELSE a
RMin(a, b) == IF RLt(b, a) THEN b ELSE a

ISqrt(n) == CHOOSE k \in 0..n : k * k = n
RSqrt(a) == <<ISqrt(a[1]), ISqrt(a[2])>>

\* np.clip(v, lo, hi)
Clip(v, lo, hi) == RMin(RMax(v, lo), hi)

\* 2-D points and vectors are pairs of rationals.
VSub(p, q) == <<RSub(p[1], q[1]), RSub(p[2], q[2])>>
VAdd(p, q) == <<RAdd(p[1], q[1]), RAdd(p[2], q[2])>>
VScale(p, k) == <<RMul(p[1], k), RMul(p[2], k)>>
VDiv(p, k) == <<RDiv(p[1], k), RDiv(p[2], k)>>
\* np.linalg.norm of a 2-vector
Norm(v) == RSqrt(RAdd(RMul(v[1], v[1]), RMul(v[2], v[2])))
Origin == <<Zero, Zero>>

---------------------------------------------------------------------------
(* _turning_radius_to                                                      *)

_turning_radius_to_NoAbs(x, y) ==
    IF x = Zero THEN Inf
    ELSE RDiv(RAdd(RMul(x, x), RMul(y, y)), RMul(<<2, 1>>, x))

_turning_radius_to(x, y) ==
    IF x = Zero THEN Inf
    ELSE RDiv(RAdd(RMul(x, x), RMul(y, y)), RMul(<<2, 1>>, RAbs(x)))

---------------------------------------------------------------------------
(* PidController                                                           *)

PidController_init(dt, proportional, integral, derivative, integral_discounting_per_step) ==
    [coef_proportional |-> proportional,
     coef_integral |-> integral,
     coef_derivative |-> derivative,
     integral_discounting |-> integral_discounting_per_step,
     dt |-> dt,
     previous_error |-> None,
     error_integral |-> Zero]

\* The candidate integral of PidController.step (lines 114-117).
PidIntegral_NoDiscount(self, error) ==
    RAdd(self.error_integral, RMul(error, self.dt))

PidIntegral(self, error) ==
    RAdd(RMul(self.error_integral, RSub(One, self.integral_discounting)),
         RMul(error, self.dt))

\* The derivative of PidController.step (lines 119-122).
PidDerivative(self, error) ==
    IF self.previous_error # None
    THEN RDiv(RSub(error, self.previous_error), self.dt)
    ELSE Zero

\* The control output of PidController.step (lines 124-127): it reads the
\* stored integral, not the candidate.
PidIntegralTerm_NoLag(self, error) ==
    RMul(self.coef_integral, PidIntegral(self, error))

\* Line 126: the integral's contribution to the control output.
PidIntegralTerm(self, error) ==
    RMul(self.coef_integral, self.error_integral)

PidControl(self, error) ==
    RAdd(RAdd(RAdd(Zero, RMul(self.coef_proportional, error)),
              PidIntegralTerm(self, error)),
         RMul(self.coef_derivative, PidDerivative(self, error)))

\* The state PidController.step leaves behind (lines 129-131).
PidCommit_AlwaysUpdates(self, error, update) ==
    [self EXCEPT !.previous_error = error,
                 !.error_integral = PidIntegral(self, error)]

PidCommit(self, error, update) ==
    IF update
    THEN [self EXCEPT !.previous_error = error,
                      !.error_integral = PidIntegral(self, error)]
    ELSE self

\* PidController.step: the returned control and the controller afterwards.
PidController_step(self, error, update) ==
    [control |-> PidControl(self, error),
     self |-> PidCommit(self, error, update)]

---------------------------------------------------------------------------
(* _interpolate_waypoint_n_meters_ahead                                    *)

\* cur_pos + unit * (meters - total_dist), with unit = (target - start) / dist
\* (lines 153-154 inside the loop, lines 161-162 after it).
InterpolatedPoint_FromOrigin(start, target, cur_pos, dist, meters, total_dist) ==
    VAdd(Origin, VScale(VDiv(VSub(target, start), dist), RSub(meters, total_dist)))

InterpolatedPoint(start, target, cur_pos, dist, meters, total_dist) ==
    VAdd(cur_pos, VScale(VDiv(VSub(target, start), dist), RSub(meters, total_dist)))

\* The for loop of lines 150-159, entered at waypoint number i with the
\* loop's locals, followed by the extrapolation of lines 161-163.
RECURSIVE InterpolateLoop(_, _, _, _, _, _, _)
InterpolateLoop(waypoints, meters, i, total_dist, prev_pos, cur_pos, last_dist) ==
    IF i > Len(waypoints)
    THEN InterpolatedPoint(prev_pos, cur_pos, cur_pos, last_dist, meters, total_dist)
    ELSE LET waypoint == waypoints[i]
             dist == Norm(VSub(waypoint, cur_pos))
         IN  IF RLe(meters, RAdd(total_dist, dist))
             THEN InterpolatedPoint(cur_pos, waypoint, cur_pos, dist, meters, total_dist)
             ELSE InterpolateLoop(waypoints, meters, i + 1, RAdd(total_dist, dist),
                                  cur_pos, waypoint, dist)

\* `dist` is unbound before the first iteration; it is read only after one.
_interpolate_waypoint_n_meters_ahead(waypoints, meters) ==
    InterpolateLoop(waypoints, meters, 1, Zero, Origin, Origin, None)

---------------------------------------------------------------------------
(* Inputs of the vehicle controller.                                       *)

MaxCalls == 3

\* A waypoint (forward, lateral), given in quarter metres.
Pt(f, l) == <<Rat(f, 4), Rat(l, 4)>>

\* Lateral mirror image of a waypoint sequence.
Mirror(waypoints) ==
    [i \in 1..Len(waypoints) |-> <<waypoints[i][1], RNeg(waypoints[i][2])>>]

Creep == <<Pt(1, 0), Pt(2, 0), Pt(3, 0)>>
CreepThenSwerve == <<Pt(1, 0), Pt(2, 0), Pt(3, 0), Pt(3, 24)>>
SlowStraight == <<Pt(2, 0), Pt(4, 0), Pt(6, 0)>>
CurveLeft == <<Pt(8, 0), Pt(14, -8), Pt(20, -16)>>
HardRight == <<Pt(0, 8), Pt(0, 16), Pt(0, 4)>>

\* The predicted trajectories fed to step, and the telemetry speeds (m/s).
ControllerPaths == {Creep, CreepThenSwerve, SlowStraight, CurveLeft, HardRight}
Speeds == {Zero, One, <<2, 1>>, <<11, 1>>}
WheelBases == {<<2, 1>>, <<3, 1>>}

---------------------------------------------------------------------------
(* VehicleController                                                       *)

waypoint_step_gap == 5
unit_time_per_step == <<1, 10>>
LookAhead == <<5, 1>>
NearStopKmh == <<7, 2>>
MinBrake == <<1, 20>>

\* Lines 177-182: both PID loops are built alike.
VehicleController_init_pid ==
    PidController_init(unit_time_per_step, <<1, 2>>, <<1, 20>>, <<1, 50>>, Zero)

\* physics.KinematicBicycle.turning_radius_to_steering_angle: the supplied
\* conversion, here wheelbase / radius, with infinite radius mapped to 0.
turning_radius_to_steering_angle(radius) ==
    IF radius = Inf THEN Zero ELSE RDiv(wheelbase, radius)

\* Line 197: waypoints[..., [1, 0]]
SwapAxes(waypoints) ==
    [i \in 1..Len(waypoints) |-> <<waypoints[i][2], waypoints[i][1]>>]

\* Line 198: np.insert(waypoints, 0, [0, 0], axis=0)
Targets(swapped) == <<Origin>> \o swapped

\* Line 201: the lengths of the consecutive segments of targets.
Deltas(targets) ==
    [i \in 1..(Len(targets) - 1) |-> Norm(VSub(targets[i], targets[i + 1]))]

RECURSIVE SumSeq(_)
SumSeq(s) == IF s = <<>> THEN Zero ELSE RAdd(s[1], SumSeq(Tail(s)))

\* deltas[:3].mean()
MeanOfFirst3(deltas) ==
    LET head == SubSeq(deltas, 1, IF Len(deltas) < 3 THEN Len(deltas) ELSE 3)
    IN  RDiv(SumSeq(head), <<Len(head), 1>>)

\* Line 202, on the swapped waypoints.
TargetSpeed(swapped) ==
    RDiv(MeanOfFirst3(Deltas(Targets(swapped))),
         RMul(<<waypoint_step_gap, 1>>, unit_time_per_step))

\* Line 220: target_speed * 60.0 * 60.0 / 1000.0 < 3.5
NearStop(target_speed) ==
    RLt(RDiv(RMul(RMul(target_speed, <<60, 1>>), <<60, 1>>), <<1000, 1>>),
        NearStopKmh)

\* Line 208: the look-ahead point (x, y) on the swapped waypoints.
LookAheadPoint(swapped) ==
    _interpolate_waypoint_n_meters_ahead(swapped, LookAhead)

\* TargetSpeed and LookAheadPoint depend on the waypoints alone; they are
\* evaluated once per trajectory and looked up at each call.
KnownPaths == {SwapAxes(w) : w \in ControllerPaths \cup {Mirror(v) : v \in ControllerPaths}}
TargetSpeedOf == [swapped \in KnownPaths |-> TargetSpeed(swapped)]
LookAheadPointOf == [swapped \in KnownPaths |-> LookAheadPoint(swapped)]

\* Lines 211-216 on the look-ahead point (x, y): the steering angle before
\* the near-stop override.
SteeringAngleTo_NoSign(x, y) ==
    turning_radius_to_steering_angle(_turning_radius_to(x, y))

SteeringAngleTo(x, y) ==
    IF RLt(x, Zero)
    THEN RNeg(turning_radius_to_steering_angle(_turning_radius_to(x, y)))
    ELSE turning_radius_to_steering_angle(_turning_radius_to(x, y))

\* Lines 208-216.
SteeringTarget(swapped) ==
    SteeringAngleTo(LookAheadPointOf[swapped][1], LookAheadPointOf[swapped][2])

\* Lines 229-235: the clamps and the returned carla.VehicleControl.  The
\* clamped `steering` is computed and dropped: steer is steering_angle.
VehicleControl(throttle, steering_angle, brake) ==
    LET steering == Clip(steering_angle, <<-1, 1>>, One)
    IN  [outcome |-> "returned",
         throttle |-> Clip(throttle, Zero, One),
         steer |-> steering_angle,
         brake |-> Clip(brake, Zero, One)]

Raised(exception) ==
    [outcome |-> exception, throttle |-> None, steer |-> None, brake |-> None]

\* Lines 221-224 and 229-235: the near-stop branch, given the brake PID's
\* step b on state.speed, and the return.
NearStopReturn_NoFloor(sc, b) ==
    [result |-> VehicleControl(Zero, Zero, b.control),
     speed_control |-> sc, brake_control |-> b.self]

NearStopReturn(sc, b) ==
    [result |-> VehicleControl(Zero, Zero, RMax(b.control, MinBrake)),
     speed_control |-> sc, brake_control |-> b.self]

\* Lines 226-227 and 229-235: the normal-driving branch, given the throttle
\* PID's step t on acceleration and the brake PID's step b on -acceleration,
\* and the return.
NormalReturn(t, b, steering_angle) ==
    [result |-> VehicleControl(t.control, steering_angle, b.control),
     speed_control |-> t.self, brake_control |-> b.self]

\* Lines 204-235 with the brake PID stepped on acceleration instead of
\* -acceleration at line 227.
StepTowards_BrakeOnAcceleration(sc, bc, speed, swapped, target_speed, update_pids) ==
    IF ~logger_bound
    THEN [result |-> Raised("NameError"),
          speed_control |-> sc, brake_control |-> bc]
    ELSE IF NearStop(target_speed)
         THEN NearStopReturn(sc, PidController_step(bc, speed, update_pids))
         ELSE NormalReturn(
                 PidController_step(sc, RSub(target_speed, speed), update_pids),
                 PidController_step(bc, RSub(target_speed, speed), update_pids),
                 SteeringTarget(swapped))

\* Lines 204-235, given target_speed.  Line 206 reads the global `logger`,
\* which the module itself never binds (lines 1-8).
StepTowards(sc, bc, speed, swapped, target_speed, update_pids) ==
    IF ~logger_bound
    THEN [result |-> Raised("NameError"),
          speed_control |-> sc, brake_control |-> bc]
    ELSE IF NearStop(target_speed)
         THEN NearStopReturn(sc, PidController_step(bc, speed, update_pids))
         ELSE NormalReturn(
                 PidController_step(sc, RSub(target_speed, speed), update_pids),
                 PidController_step(bc, RNeg(RSub(target_speed, speed)), update_pids),
                 SteeringTarget(swapped))

\* Lines 198-235, given the swapped waypoints.
StepOnSwapped(sc, bc, speed, swapped, update_pids) ==
    StepTowards(sc, bc, speed, swapped, TargetSpeedOf[swapped], update_pids)

\* VehicleController.step (lines 184-235): the result and both PID
\* controllers afterwards.
VehicleController_step(sc, bc, speed, waypoints, update_pids) ==
    StepOnSwapped(sc, bc, speed, SwapAxes(waypoints), update_pids)

---------------------------------------------------------------------------
(* The vehicle controller as a state machine: one action per step call.    *)

NoCall ==
    [speed |-> None, waypoints |-> None, update_pids |-> FALSE,
     speed_control |-> None, brake_control |-> None]
NoResult == Raised("none")

\* The module binds no `logger`; a host that assigns the module attribute
\* before the first call makes line 206 pass.  Both are modelled.
InitVC ==
    /\ speed_control = VehicleController_init_pid
    /\ brake_control = VehicleController_init_pid
    /\ wheelbase \in WheelBases
    /\ logger_bound \in BOOLEAN
    /\ calls = 0
    /\ call = NoCall
    /\ result = NoResult

IdleVC ==
    /\ speed_control = VehicleController_init_pid
    /\ brake_control = VehicleController_init_pid
    /\ wheelbase = <<3, 1>>
    /\ logger_bound = FALSE
    /\ calls = 0
    /\ call = NoCall
    /\ result = NoResult

IdlePid ==
    /\ pid_a = None
    /\ pid_b = None
    /\ hist_a = <<>>
    /\ hist_b = <<>>
    /\ pid_call = None

IdleGeo ==
    /\ geo_in = None
    /\ geo_out = None

\* One call of VehicleController.step(state, waypoints, update_pids).
Step(speed, waypoints, update_pids) ==
    /\ calls < MaxCalls
    /\ \E r \in {VehicleController_step(speed_control, brake_control, speed,
                                         waypoints, update_pids)} :
          /\ result' = r.result
          /\ speed_control' = r.speed_control
          /\ brake_control' = r.brake_control
    /\ call' = [speed |-> speed, waypoints |-> waypoints,
                update_pids |-> update_pids,
                speed_control |-> speed_control,
                brake_control |-> brake_control]
    /\ calls' = calls + 1
    /\ UNCHANGED <<wheelbase, logger_bound, pid_vars, geo_vars>>

Init == InitVC /\ IdlePid /\ IdleGeo

Next ==
    \E speed \in Speeds, waypoints \in ControllerPaths, update_pids \in BOOLEAN :
        Step(speed, waypoints, update_pids)

Spec == Init /\ [][Next]_vars

---------------------------------------------------------------------------
(* Properties of VehicleController.step, checked under Spec.               *)

Returned == result.outcome = "returned"
InUnit(v) == RLe(Zero, v) /\ RLe(v, One)

\* The claims' own reading of the branch condition: the mean of the first
\* at most 3 segment lengths of the origin-prepended path, over
\* step_gap * timestep, times 3600/1000, is below 3.5.
CallNearStop ==
    NearStop(TargetSpeedOf[SwapAxes(call.waypoints)])

\* C1: every returned command has throttle in [0,1], brake in [0,1] and
\* steer in [-1,1].
C1_CommandInRange ==
    Returned =>
        /\ InUnit(result.throttle)
        /\ InUnit(result.brake)
        /\ RLe(<<-1, 1>>, result.steer)
        /\ RLe(result.steer, One)

\* C2: a near-stop tick returns throttle 0, steer 0 and brake >= 0.05,
\* whatever the speed, the waypoints' shape and the brake PID's state.
C2_NearStopCommand ==
    (Returned /\ CallNearStop) =>
        /\ result.throttle = Zero
        /\ result.steer = Zero
        /\ RLe(<<1, 20>>, result.brake)

\* A near-stop tick on a path with a large lateral offset at the look-ahead
\* point, a moving vehicle and a brake PID that has been stepped before.
C2_Witness ==
    /\ Returned
    /\ CallNearStop
    /\ call.waypoints = CreepThenSwerve
    /\ call.speed = <<11, 1>>
    /\ call.brake_control.previous_error # None
    /\ call.brake_control.error_integral # Zero
    /\ RLt(<<1, 20>>, result.brake)

\* C3: a step call with update_pids = FALSE leaves both PID controllers as
\* they were, so a repetition of it with the same inputs returns the same
\* command.
C3_NonMutating ==
    [][(calls' = calls + 1 /\ ~call'.update_pids) =>
          /\ speed_control' = speed_control
          /\ brake_control' = brake_control
          /\ (calls > 0 /\ ~call.update_pids /\ call'.speed = call.speed
                /\ call'.waypoints = call.waypoints) => result' = result]_vars

\* A non-updating normal-driving tick on PID controllers that hold state.
C3_Witness ==
    /\ Returned
    /\ ~call.update_pids
    /\ ~CallNearStop
    /\ call.speed_control.previous_error # None
    /\ call.brake_control.error_integral # Zero
    /\ speed_control = call.speed_control
    /\ brake_control = call.brake_control

\* C4: no returned command has both throttle > 0 and brake > 0.
C4_MutuallyExclusive ==
    Returned => ~(RLt(Zero, result.throttle) /\ RLt(Zero, result.brake))

\* C9: every step call returns an actuation command.
C9_StepReturns ==
    calls > 0 => Returned

\* C10: in a normal-driving tick the steering is conv(radius) of the
\* look-ahead point (x, y), negated when x < 0; mirroring the waypoints'
\* lateral offsets negates it and leaves throttle and brake alone; x = 0
\* gives steering 0.
C10_SteeringTarget ==
    (Returned /\ ~CallNearStop) =>
        LET p == LookAheadPointOf[SwapAxes(call.waypoints)]
            x == p[1]
            y == p[2]
            conv == turning_radius_to_steering_angle(_turning_radius_to(x, y))
            m == VehicleController_step(call.speed_control, call.brake_control,
                                        call.speed, Mirror(call.waypoints),
                                        call.update_pids).result
        IN  /\ result.steer = IF RLe(Zero, x) THEN conv ELSE RNeg(conv)
            /\ m.steer = RNeg(result.steer)
            /\ m.throttle = result.throttle
            /\ m.brake = result.brake
            /\ (x = Zero => result.steer = Zero)

\* A normal-driving tick whose look-ahead point lies at a negative lateral
\* offset and whose steering is therefore negative.
C10_Witness ==
    /\ Returned
    /\ ~CallNearStop
    /\ call.waypoints = CurveLeft
    /\ RLt(LookAheadPointOf[SwapAxes(call.waypoints)][1], Zero)
    /\ RLt(result.steer, Zero)

\* The brake PID's state is the negation of the throttle PID's state: both
\* previous errors undefined or brake previous_error = -throttle
\* previous_error, and brake integral = -throttle integral.
PidNegated(throttle_pid, brake_pid) ==
    /\ \/ throttle_pid.previous_error = None /\ brake_pid.previous_error = None
       \/ /\ throttle_pid.previous_error # None
          /\ brake_pid.previous_error # None
          /\ brake_pid.previous_error = RNeg(throttle_pid.previous_error)
    /\ brake_pid.error_integral = RNeg(throttle_pid.error_integral)

\* The last call ran line 223 with update = True.
UpdatingNearStop == Returned /\ CallNearStop /\ call.update_pids

\* Line 204 of the last call.
CallAcceleration ==
    RSub(TargetSpeedOf[SwapAxes(call.waypoints)], call.speed)

\* Construction leaves the two PIDs negated; every call other than an
\* updating near-stop tick keeps them negated; a normal-driving tick on
\* negated PIDs has unclamped brake = -(unclamped throttle), which the
\* returned command clamps.  By induction the PIDs are negated after every
\* sequence of calls without an updating near-stop tick.
NegationKept ==
    /\ calls = 0 => PidNegated(speed_control, brake_control)
    /\ (/\ calls > 0
        /\ PidNegated(call.speed_control, call.brake_control)
        /\ ~UpdatingNearStop)
       => PidNegated(speed_control, brake_control)
    /\ (/\ calls > 0
        /\ PidNegated(call.speed_control, call.brake_control)
        /\ Returned
        /\ ~CallNearStop)
       => /\ PidControl(call.brake_control, RNeg(CallAcceleration))
               = RNeg(PidControl(call.speed_control, CallAcceleration))
          /\ result.throttle
               = Clip(PidControl(call.speed_control, CallAcceleration), Zero, One)
          /\ result.brake
               = Clip(RNeg(PidControl(call.speed_control, CallAcceleration)), Zero, One)

\* C11 as stated: without an updating near-stop tick since construction the
\* brake PID's state is the negation of the throttle PID's state and a
\* normal-driving tick's unclamped brake is minus its unclamped throttle;
\* an updating near-stop tick on negated PIDs leaves them not negated.
C11_NearStopBreaksNegation ==
    /\ NegationKept
    /\ (/\ calls > 0
        /\ PidNegated(call.speed_control, call.brake_control)
        /\ UpdatingNearStop)
       => ~PidNegated(speed_control, brake_control)

\* C11 amended: the same, except that an updating near-stop tick on negated
\* PIDs leaves them negated exactly when state.speed is 0 and the throttle
\* PID's previous error is 0, and not negated otherwise.
C11_NegatedPidLoops ==
    /\ NegationKept
    /\ (/\ calls > 0
        /\ PidNegated(call.speed_control, call.brake_control)
        /\ UpdatingNearStop)
       => (PidNegated(speed_control, brake_control)
             <=> (call.speed = Zero /\ call.speed_control.previous_error = Zero))

\* An updating normal-driving tick on PIDs that already hold negated,
\* non-zero state, with a positive brake command.
C11_Witness ==
    /\ calls >= 2
    /\ Returned
    /\ ~CallNearStop
    /\ call.update_pids
    /\ call.speed_control.previous_error # None
    /\ call.speed_control.previous_error # Zero
    /\ call.speed_control.error_integral # Zero
    /\ PidNegated(call.speed_control, call.brake_control)
    /\ PidNegated(speed_control, brake_control)
    /\ speed_control.error_integral # Zero
    /\ RLt(Zero, result.brake)


---------------------------------------------------------------------------
(* PidController on its own: two controllers built with the same           *)
(* coefficients and stepped independently.                                 *)

MaxPidCalls == 4

\* (unit_time_per_step, proportional, integral, derivative, discounting):
\* the vehicle controller's loops, the same with full discounting, and a
\* unit-coefficient controller with half discounting.
PidConfigs ==
    {<<unit_time_per_step, <<1, 2>>, <<1, 20>>, <<1, 50>>, Zero>>,
     <<unit_time_per_step, <<1, 2>>, <<1, 20>>, <<1, 50>>, One>>,
     <<One, One, One, One, <<1, 2>>>>}
Errors == {<<-1, 1>>, <<2, 1>>}

NoPidCall ==
    [n |-> 0,
     a |-> [error |-> None, update |-> FALSE, control |-> None, integral_term |-> None],
     b |-> [error |-> None, update |-> FALSE, control |-> None, integral_term |-> None]]

InitPid ==
    /\ \E c \in PidConfigs :
          /\ pid_a = PidController_init(c[1], c[2], c[3], c[4], c[5])
          /\ pid_b = PidController_init(c[1], c[2], c[3], c[4], c[5])
    /\ hist_a = <<>>
    /\ hist_b = <<>>
    /\ pid_call = NoPidCall

PidCallRecord(self, error, update) ==
    [error |-> error, update |-> update,
     control |-> PidController_step(self, error, update).control,
     integral_term |-> PidIntegralTerm(self, error)]

\* pid_a.step(error, update)
StepA(error, update) ==
    /\ pid_call.n < MaxPidCalls
    /\ pid_a' = PidController_step(pid_a, error, update).self
    /\ hist_a' = IF update THEN Append(hist_a, error) ELSE hist_a
    /\ pid_call' = [pid_call EXCEPT !.n = @ + 1,
                                    !.a = PidCallRecord(pid_a, error, update)]
    /\ UNCHANGED <<pid_b, hist_b, vc_vars, geo_vars>>

\* pid_b.step(error, update)
StepB(error, update) ==
    /\ pid_call.n < MaxPidCalls
    /\ pid_b' = PidController_step(pid_b, error, update).self
    /\ hist_b' = IF update THEN Append(hist_b, error) ELSE hist_b
    /\ pid_call' = [pid_call EXCEPT !.n = @ + 1,
                                    !.b = PidCallRecord(pid_b, error, update)]
    /\ UNCHANGED <<pid_a, hist_a, vc_vars, geo_vars>>

NextPid ==
    \/ \E error \in Errors, update \in BOOLEAN : StepA(error, update)
    \/ \E error \in Errors, update \in BOOLEAN : StepB(error, update)

InitPidOnly == IdleVC /\ InitPid /\ IdleGeo

SpecPid == InitPidOnly /\ [][NextPid]_vars

\* The errors a controller had been updated with before its latest call.
HistBefore(hist, c) ==
    IF c.update THEN SubSeq(hist, 1, Len(hist) - 1) ELSE hist

\* The integral a controller holds after the updating calls of hist.
RECURSIVE IntegralAfter(_, _)
IntegralAfter(self, hist) ==
    IF hist = <<>> THEN Zero
    ELSE RAdd(RMul(IntegralAfter(self, SubSeq(hist, 1, Len(hist) - 1)),
                   RSub(One, self.integral_discounting)),
              RMul(hist[Len(hist)], self.dt))

PidOutputLaw(self, hist, c) ==
    c.error # None =>
        LET before == HistBefore(hist, c)
            I_pre == IntegralAfter(self, before)
            d == IF before = <<>> THEN Zero
                 ELSE RDiv(RSub(c.error, before[Len(before)]), self.dt)
        IN  /\ c.control = RAdd(RAdd(RMul(self.coef_proportional, c.error),
                                     RMul(self.coef_integral, I_pre)),
                                RMul(self.coef_derivative, d))
            /\ self.error_integral = IntegralAfter(self, hist)
            /\ self.previous_error = IF hist = <<>> THEN None ELSE hist[Len(hist)]
            /\ c.update =>
                  /\ self.error_integral =
                        RAdd(RMul(I_pre, RSub(One, self.integral_discounting)),
                             RMul(c.error, self.dt))
                  /\ self.previous_error = c.error

\* C5: step(error) returns Kp*error + Ki*I_pre + Kd*d, with I_pre the
\* integral stored before the call and d = (error - previous_error)/dt, or 0
\* before the first updating call; an updating call then stores
\* I_pre*(1 - discount) + error*dt and the error.
C5_PidOutput ==
    /\ PidOutputLaw(pid_a, hist_a, pid_call.a)
    /\ PidOutputLaw(pid_b, hist_b, pid_call.b)

\* A call on a controller that has been updated twice with different
\* errors, so that integral and derivative both contribute.
C5_Witness ==
    /\ Len(hist_a) >= 3
    /\ hist_a[1] # hist_a[2]
    /\ pid_call.a.update
    /\ pid_a.coef_integral # Zero
    /\ pid_call.a.integral_term # Zero
    /\ pid_call.a.control # RMul(pid_a.coef_proportional, pid_call.a.error)

FullDiscount == pid_a.integral_discounting = One

\* Both controllers were last stepped, updating, with the same error.
SameLatestError ==
    /\ pid_call.a.error # None
    /\ pid_call.b.error # None
    /\ pid_call.a.update
    /\ pid_call.b.update
    /\ pid_call.a.error = pid_call.b.error

\* C6 as stated: with discounting 1.0, the integral contribution to the
\* output of the step that receives e is the same for both controllers.
C6_IntegralTermOfLatestError ==
    (FullDiscount /\ SameLatestError) =>
        pid_call.a.integral_term = pid_call.b.integral_term

\* C6 amended: with discounting 1.0, the integral stored by the updating
\* step that receives e is e*dt in both controllers, whatever came before,
\* so the next step's integral contribution is the same; the contribution
\* to the output of the step that receives e is Ki times the previously
\* stored integral (the preceding updating error times dt, or 0).
C6_StoredIntegralMemoryless ==
    FullDiscount =>
        /\ SameLatestError =>
              /\ pid_a.error_integral = RMul(pid_call.a.error, pid_a.dt)
              /\ pid_b.error_integral = pid_a.error_integral
              /\ \A e \in Errors :
                    PidIntegralTerm(pid_a, e) = PidIntegralTerm(pid_b, e)
        /\ \A s \in {<<pid_a, hist_a, pid_call.a>>, <<pid_b, hist_b, pid_call.b>>} :
              s[3].error # None =>
                 LET before == HistBefore(s[2], s[3])
                 IN  s[3].integral_term =
                        RMul(s[1].coef_integral,
                             IF before = <<>> THEN Zero
                             ELSE RMul(before[Len(before)], s[1].dt))

\* Two fully discounting controllers fed different histories that end in
\* the same error.
C6_Witness ==
    /\ FullDiscount
    /\ SameLatestError
    /\ Len(hist_a) = 2
    /\ Len(hist_b) = 2
    /\ hist_a[1] # hist_b[1]

---------------------------------------------------------------------------
(* The pure functions on their own: each action is one call.               *)

MaxWaypoints == 3
MaxCoord == 3

\* Displacements between consecutive waypoints; each has a rational length.
Moves ==
    {<<Rat(1, 2), Zero>>, <<Rat(-1, 2), Zero>>, <<Zero, One>>,
     <<Rat(3, 2), Rat(-2, 1)>>, <<Rat(21, 2), Zero>>}

\* The waypoints reached by making the moves ms one after the other.
RECURSIVE PathOf(_)
PathOf(ms) ==
    IF ms = <<>> THEN <<>>
    ELSE LET init == PathOf(SubSeq(ms, 1, Len(ms) - 1))
             last == IF init = <<>> THEN Origin ELSE init[Len(init)]
         IN  Append(init, VAdd(last, ms[Len(ms)]))

Polylines == {PathOf(ms) : ms \in UNION {[1..n -> Moves] : n \in 1..MaxWaypoints}}
Distances == {Zero, Rat(1, 2), One, Rat(3, 2), Rat(5, 2), Rat(7, 2), LookAhead, <<20, 1>>}
Coords == {Rat(k, 2) : k \in (-MaxCoord)..MaxCoord}

\* The arguments of one call, drawn before the call is made.
InitGeo ==
    /\ geo_in \in
          {[fn |-> "interpolate", waypoints |-> w, meters |-> d] :
              w \in Polylines, d \in Distances}
          \cup {[fn |-> "radius", x |-> c[1], y |-> c[2]] : c \in Coords \X Coords}
    /\ geo_out = None

\* _interpolate_waypoint_n_meters_ahead(waypoints, meters)
CallInterpolate ==
    /\ geo_in.fn = "interpolate"
    /\ geo_out = None
    /\ geo_out' = _interpolate_waypoint_n_meters_ahead(geo_in.waypoints, geo_in.meters)
    /\ UNCHANGED <<geo_in, vc_vars, pid_vars>>

\* _turning_radius_to(x, y)
CallTurningRadius ==
    /\ geo_in.fn = "radius"
    /\ geo_out = None
    /\ geo_out' = _turning_radius_to(geo_in.x, geo_in.y)
    /\ UNCHANGED <<geo_in, vc_vars, pid_vars>>

NextGeo == CallInterpolate \/ CallTurningRadius

InitGeoOnly == IdleVC /\ IdlePid /\ InitGeo

SpecGeo == InitGeoOnly /\ [][NextGeo]_vars

Dot(u, v) == RAdd(RMul(u[1], v[1]), RMul(u[2], v[2]))
Cross(u, v) == RSub(RMul(u[1], v[2]), RMul(u[2], v[1]))

\* Vertex number i of the polyline origin -> w1 -> ... -> wn.
Vertex(waypoints, i) == IF i = 0 THEN Origin ELSE waypoints[i]

\* Arc length of the polyline from the origin to vertex i.
RECURSIVE ArcLength(_, _)
ArcLength(waypoints, i) ==
    IF i = 0 THEN Zero
    ELSE RAdd(ArcLength(waypoints, i - 1),
              Norm(VSub(Vertex(waypoints, i), Vertex(waypoints, i - 1))))

\* p lies on the ray from `from` in direction dir, at distance len >= 0.
OnRayAt(p, from, dir, len) ==
    /\ Cross(VSub(p, from), dir) = Zero
    /\ RLe(Zero, Dot(VSub(p, from), dir))
    /\ Dot(VSub(p, from), VSub(p, from)) = RMul(len, len)

\* C7: the interpolator returns the point at arc length d of the polyline
\* origin -> w1 -> ... -> wn, inside the first segment whose cumulative
\* length reaches d, and past wn along the final segment when d exceeds the
\* total length.
C7_PointAtArcLength ==
    (geo_in.fn = "interpolate" /\ geo_out # None) =>
        LET w == geo_in.waypoints
            d == geo_in.meters
            n == Len(w)
            L == ArcLength(w, n)
        IN  IF RLe(d, L)
            THEN LET i == CHOOSE k \in 1..n :
                              /\ RLe(d, ArcLength(w, k))
                              /\ \A j \in 1..(k - 1) : RLt(ArcLength(w, j), d)
                     dir == VSub(Vertex(w, i), Vertex(w, i - 1))
                 IN  /\ OnRayAt(geo_out, Vertex(w, i - 1), dir,
                                RSub(d, ArcLength(w, i - 1)))
                     /\ (d = Zero => geo_out = Origin)
                     /\ (d = ArcLength(w, i) => geo_out = w[i])
            ELSE OnRayAt(geo_out, w[n], VSub(w[n], Vertex(w, n - 1)), RSub(d, L))

\* An interpolation inside a later segment that does not start at the
\* origin.
C7_Witness ==
    /\ geo_in.fn = "interpolate"
    /\ geo_out # None
    /\ Len(geo_in.waypoints) = 3
    /\ RLt(ArcLength(geo_in.waypoints, 2), geo_in.meters)
    /\ RLt(geo_in.meters, ArcLength(geo_in.waypoints, 3))
    /\ geo_out # geo_in.waypoints[2]
    /\ geo_out # geo_in.waypoints[3]

\* C8: for x # 0 the radius is (x^2 + y^2)/(2|x|): positive, the same for x
\* and -x, and the radius of the circle through the origin and (x, y) whose
\* centre lies on the lateral axis; for x = 0 it is +infinity.
C8_TurningRadius ==
    (geo_in.fn = "radius" /\ geo_out # None) =>
        LET x == geo_in.x
            y == geo_in.y
            r == geo_out
        IN  /\ (x = Zero => r = Inf)
            /\ (x # Zero =>
                  /\ r # Inf
                  /\ RLt(Zero, r)
                  /\ RMul(r, RMul(<<2, 1>>, RAbs(x))) = RAdd(RMul(x, x), RMul(y, y))
                  /\ r = _turning_radius_to(RNeg(x), y)
                  /\ RAdd(RMul(RSub(RAbs(x), r), RSub(RAbs(x), r)), RMul(y, y))
                        = RMul(r, r))
            /\ (x = One /\ y = Zero => r = Rat(1, 2))
            /\ (x = One /\ y = One => r = One)

\* The radius of a point at a negative lateral offset.
C8_Witness ==
    /\ geo_in.fn = "radius"
    /\ geo_in.x = <<-1, 1>>
    /\ geo_in.y = One
    /\ geo_out = One

===========================================================================
